---- MODULE Spec2Model ----
(***************************************************************************)
(* The Telegram notification bridge: main() handles its flags, loads the   *)
(* configuration, reads the hook input and either sends a plain notice or  *)
(* runs the approval exchange:                                             *)
(* main() sends the prompt with its buttons, TelegramClient.waitForResponse*)
(* drains the update queue, polls in slices of 5 seconds and dispatches    *)
(* every update, and main() maps the outcome to the process exit code.     *)
(* The platform is the queue of updates it holds for the bot; update ids   *)
(* are the positions in that queue.                                        *)
(***************************************************************************)
EXTENDS Integers, Sequences, FiniteSets

\* ---------------------------------------------------------------- bounds
\* Number of updates the platform receives during one run.
MaxUpdates == 2
\* config.timeout (seconds) of the run.
TimeoutSecs == 3
\* Number of updates of a run with a reply dialogue (a press of Reply, one
\* more update and the typed text).
MaxQueue == MaxUpdates + 1

\* Length of the text put into one field of the notification context.
MaxText == 3

\* Number of replies the platform has ready for the requests of one
\* invocation of a gateway operation.
MaxReplies == 2

\* ------------------------------------------------------ program constants
\* formatNotificationMessage: const maxLen = 2000.
maxLen == 2000
\* getUpdates(this.lastUpdateId, 5): the wait of one poll slice, in seconds.
PollWait == 5
\* this.sleep(1000): the backoff after a failed slice, in seconds.
BackoffSecs == 1
\* private lastUpdateId = 0
InitialUpdateId == 0

\* Message ids: the prompt sent by this run, and some other message.
OurMsg == 1
OtherMsg == 2
NoMsg == 0

\* ------------------------------------------------------- inputs of a run
\* process.argv: the flags main looks for (-h and -v are the same tests as
\* --help and --version).
Flags == {"--help", "--version", "--setup", "--uninstall", "--test", "--event=stop"}

\* const VERSION
VERSION == "1.0.0"

\* Texts of standard input: nothing, blanks, text that is not JSON, the JSON
\* null, an object without notification_type and objects with one.
Stdins ==
    {"", " ", "{", "null", "{}",
     "{\"notification_type\":\"permission_prompt\"}",
     "{\"notification_type\":\"idle_prompt\"}"}

\* What loadConfig finds at the configuration path.
Configs == {"ok", "missing", "no botToken", "no chatId"}

\* What the identity call getMe can do.
GetMeResults == {"username", "no username", "ok false", "unparseable", "network error"}

\* The gateway operations.
Methods ==
    {"sendMessage", "editMessageReplyMarkup", "answerCallbackQuery",
     "getUpdates", "testConnection"}

\* What the platform answers to successive HTTP requests: each answer is one
\* of GetMeResults ("username" and "no username" are bodies with ok = true).
ReplySeqs == UNION {[1..n -> GetMeResults] : n \in 1..MaxReplies}

\* No gateway operation under observation.
\* -------------------------------------------------------- setup wizard
\* Lines typed at the prompts are sequences of characters.
RECURSIVE TrimStart(_)
TrimStart(line) ==
    IF line # <<>> /\ Head(line) = " " THEN TrimStart(Tail(line)) ELSE line

RECURSIVE TrimEnd(_)
TrimEnd(line) ==
    IF line # <<>> /\ line[Len(line)] = " "
    THEN TrimEnd(SubSeq(line, 1, Len(line) - 1))
    ELSE line

\* prompt: the line read, trimmed.
Prompt(line) == TrimEnd(TrimStart(line))

ToLowerCase(text) ==
    [i \in DOMAIN text |->
        IF text[i] = "Y" THEN "y" ELSE IF text[i] = "N" THEN "n" ELSE text[i]]

Includes(text, ch) == \E i \in DOMAIN text : text[i] = ch

\* runSetupWizard goes on with an existing configuration.
Reconfigures(reconfigure) == ToLowerCase(reconfigure) = <<"y">>

\* runSetupWizard leaves with process.exit(1) after the test.
MutNeverExits(connected) == FALSE

ExitsUnconnected(connected) == ~connected

\* The bot and the chat the platform knows.
RealToken == <<"1", ":", "A">>

RealChat == <<"4", "2">>

AnswerLines ==
    {<<>>, <<"y">>, <<"Y">>, <<"y", " ">>, <<"n">>, <<"N">>, <<"y", "e", "s">>}

TokenLines ==
    {<<>>, <<"1", "A">>, RealToken, <<" ">> \o RealToken, <<"9", ":", "Z">>}

ChatLines == {<<>>, RealChat, <<"7">>}

NoConfigFile == [exists |-> FALSE, botToken |-> <<>>, chatId |-> <<>>]

OldConfigFile == [exists |-> TRUE, botToken |-> <<"0", ":", "O">>, chatId |-> <<"7">>]

\* ~/.claude/settings.json: absent, not JSON, or with the hooks it has.
SettingsFiles ==
    {[exists |-> FALSE, json |-> FALSE, hooks |-> {}],
     [exists |-> TRUE, json |-> FALSE, hooks |-> {}],
     [exists |-> TRUE, json |-> TRUE, hooks |-> {"PreToolUse"}]}

hooksConfig == {"Notification", "Stop"}

IdleWizard ==
    [pc |-> "idle",
     configFile0 |-> NoConfigFile, configFile |-> NoConfigFile,
     settings0 |-> [exists |-> FALSE, json |-> FALSE, hooks |-> {}],
     settings |-> [exists |-> FALSE, json |-> FALSE, hooks |-> {}],
     prompted |-> {}, reconfigure |-> <<>>, token |-> <<>>,
     botToken |-> <<>>, chatId |-> <<>>, connected |-> "none",
     saveConfigCalls |-> <<>>, installHooksCalled |-> FALSE]

IdleApi == [method |-> "none", replies |-> <<>>, requests |-> 0, outcome |-> "none"]

\* The outcomes of the setup wizard.
SetupResults == {"cancelled", "invalid token", "not connected", "complete"}

\* A hook input: parsed is FALSE for null; notification_type "" is absent.
NullInput == [parsed |-> FALSE, notification_type |-> ""]

HookInput(type) == [parsed |-> TRUE, notification_type |-> type]

\* A line of standard output: plain text or a JSON object with systemMessage.
TextLine(text) == [json |-> FALSE, text |-> text]

JsonLine(systemMessage) == [json |-> TRUE, text |-> systemMessage]

\* Texts of the fields of a notification are sequences of characters: the
\* three characters escapeHtml replaces, the end of an entity and a letter.
Alphabet == {"&", "<", ">", ";", "a"}

Texts == UNION {[1..n -> Alphabet] : n \in 0..MaxText}

\* NotificationContext; <<>> is an absent or empty field.
Fields == {"projectName", "gitBranch", "toolName", "eventType", "message"}

PlainContext ==
    [projectName |-> <<"a">>, gitBranch |-> <<>>, toolName |-> <<>>,
     eventType |-> <<"a">>, message |-> <<"a">>]

\* Contexts with an arbitrary text in one field.
Contexts == {[PlainContext EXCEPT ![f] = t] : f \in Fields, t \in Texts}

\* ---------------------------------------------------------------- updates
\* TelegramUpdate: either callback_query (data, message?.message_id) or
\* message (text).  mid = NoMsg is a callback_query without message; data
\* and text "" are absent fields.
\* "other" is any data that is none of the four tokens, also absent data:
\* handleCallbackQuery compares the data with the four tokens only.
CallbackTokens == {"approve", "deny", "skip", "reply", "other"}

Callback(mid, data) == [kind |-> "callback_query", mid |-> mid, data |-> data, text |-> ""]

TextMessage(text) == [kind |-> "message", mid |-> NoMsg, data |-> "", text |-> text]

\* Where an update comes from: its chat and its sender; "chatId" is the
\* configured chat and "user" its owner.
Origins ==
    {[chat |-> "chatId", from |-> "user"],
     [chat |-> "chatId", from |-> "stranger"],
     [chat |-> "other chat", from |-> "stranger"]}

\* The update with its chat and sender.
From(update, origin) ==
    [kind |-> update.kind, mid |-> update.mid, data |-> update.data,
     text |-> update.text, chat |-> origin.chat, from |-> origin.from]

\* Button activations of the prompt of this run.
OurCallbacks == {Callback(OurMsg, d) : d \in CallbackTokens}

\* Updates that do not need the prompt to exist.
ForeignUpdates ==
    {Callback(OtherMsg, "approve"), Callback(NoMsg, "deny"),
     TextMessage("hello"), TextMessage("/cancel")}

VARIABLES
    queue,                  \* the platform's updates; update_id = position
    pc,                     \* position of the process
    sentMessageId,          \* sentMessage.message_id, NoMsg before the send
    lastUpdateId,           \* TelegramClient.lastUpdateId
    waitingForText,         \* waitForResponse: let waitingForText
    currentWaitingForText,  \* processUpdates: let currentWaitingForText
    batchLo, batchHi,       \* the updates array of the current slice
    idx,                    \* the update of the for loop
    now, startTime,         \* Date.now() and waitForResponse's startTime
    response,               \* what waitForResponse ended with
    content,                \* response.content of a text response
    exitCode,               \* process.exit(code), -1 while running
    args,                   \* process.argv.slice(2), the flags in it
    stdin,                  \* the text on standard input
    config,                 \* the persisted configuration when the run starts
    configFile,             \* what the run did to it: kept, saved or removed
    input,                  \* main: const input
    clientBuilt,            \* a TelegramClient has been constructed
    me,                     \* testConnection: what getMe did, "none" before
    notices,                \* plain messages sent (sendSimpleNotification)
    polled,                 \* a getUpdates call has been issued
    keyboard,               \* inline_keyboard of the prompt sent
    calls,                  \* side calls issued for the update under handling
    stdout,                 \* lines written with console.log
    stderr,                 \* lines written with console.error
    context,                \* what main puts into the NotificationContext
    msg,                    \* main: the formatted message, <<>> before
    inFlight,               \* the gateway calls issued and not yet settled
    api,                    \* one invocation of a gateway operation
    wizard,                 \* one run of runSetupWizard
    \* history
    queuedAtSend,           \* Len(queue) when the prompt was sent
    queuedAtBegin,          \* Len(queue) when waitForResponse was called
    delivered,              \* ids returned by the awaiting-decision polls
    examined,               \* times each update entered processUpdates' loop
    decidedBy,              \* id of the update that produced the response
    replyAt,                \* id of the last Reply press handled to its end
    legacyWaitingForText,   \* waitingForText of the single-function waitForResponse
    failStreak,             \* 1 when failed getUpdates precede the last one in a row
    lastPollOk,             \* the last getUpdates returned
    pollsAfterResponse      \* getUpdates calls issued after the response

vars == <<queue, pc, sentMessageId, lastUpdateId, waitingForText,
          currentWaitingForText, batchLo, batchHi, idx, now, startTime,
          response, content, exitCode, args, stdin, config, configFile, input,
          clientBuilt, me, notices, polled, keyboard, calls, stdout, stderr,
          context, msg, inFlight, api, wizard,
          queuedAtSend, queuedAtBegin, delivered, examined, decidedBy,
          replyAt, legacyWaitingForText, failStreak, lastPollOk, pollsAfterResponse>>

\* What main holds outside the approval exchange.
mainVars == <<args, stdin, config, configFile, input, clientBuilt, notices>>


histVars == <<queuedAtSend, queuedAtBegin, delivered, examined, decidedBy,
              replyAt, legacyWaitingForText, failStreak, lastPollOk, pollsAfterResponse>>

\* The state of the client and of the exchange.
clientVars == <<queue, sentMessageId, lastUpdateId, waitingForText,
                currentWaitingForText, batchLo, batchHi, idx, now, startTime,
                response, content, keyboard, calls, histVars>>

\* ------------------------------------------------------- pure functions

\* handleCallbackQuery, lines 417-426: the update is a button activation of
\* the waited message.
MutMatchesSentMessage(update, sentId) == update.kind = "callback_query"

MutMatchesEveryUpdate(update, sentId) == TRUE

MutMatchesOrNoMessage(update, sentId) ==
    /\ update.kind = "callback_query"
    /\ update.mid \in {sentId, NoMsg}

MatchesSentMessage(update, sentId) ==
    /\ update.kind = "callback_query"
    /\ update.mid = sentId

\* handleCallbackQuery, lines 431-445: the result for the token.
CallbackResult(data) ==
    IF data \in {"approve", "deny", "skip"} THEN data
    ELSE IF data = "reply" THEN "wait_for_text"
    ELSE "null"

\* handleTextMessage: the result for a text message.
MutTextResultAlways(update, waiting) ==
    IF ~(update.kind = "message" /\ update.text # "") THEN "null"
    ELSE IF update.text = "/cancel" THEN "skip"
    ELSE "text"

MutTextResultOurChat(update, waiting) ==
    IF ~(update.kind = "message" /\ update.text # "" /\ waiting
         /\ update.chat = "chatId") THEN "null"
    ELSE IF update.text = "/cancel" THEN "skip"
    ELSE "text"

MutTextResultCancel(update, waiting) ==
    IF update.kind = "message" /\ update.text = "/cancel" THEN "skip"
    ELSE IF ~(update.kind = "message" /\ update.text # "" /\ waiting) THEN "null"
    ELSE "text"

TextResult(update, waiting) ==
    IF ~(update.kind = "message" /\ update.text # "" /\ waiting) THEN "null"
    ELSE IF update.text = "/cancel" THEN "skip"
    ELSE "text"

\* processUpdates, line 473: this.lastUpdateId = update.update_id + 1.
MutNextCursor(updateId) == updateId

NextCursor(updateId) == updateId + 1

\* clearPendingUpdates: the cursor after a drain. The platform returns the
\* updates it still holds in the order of their ids, so the last one returned
\* is the last one queued, count; it holds none when count = 0.
MutDrainedCursor(count, cursor) == cursor

MutDrainedCursorLast(count, cursor) ==
    IF count > 0 THEN count ELSE cursor

DrainedCursor(count, cursor) ==
    IF count > 0 THEN count + 1 ELSE cursor

\* getUpdates(offset): the platform returns the queued updates whose id is at
\* least offset; this is the id of the first one.
MutFirstReturnedAll(offset) == 1

FirstReturned(offset) == IF offset < 1 THEN 1 ELSE offset

\* sleep, lines 497-499: the time at which sleep(secs) started at t resolves.
MutSleep(t, secs) == t

SleepEnd(t, secs) == t + secs

\* waitForResponse, line 512: Date.now() - startTime < timeoutMs.
BeforeDeadline(t, start) == t - start < TimeoutSecs

\* main, lines 833-869: the exit code for response.type.
MutExitCodeDenyOne(type) ==
    CASE type \in {"approve", "skip", "text"} -> 0
      [] type = "timeout" -> 2
      [] OTHER -> 1

MutExitCodeFor(type) ==
    CASE type \in {"approve", "skip", "text", "timeout"} -> 0
      [] type = "deny" -> 2
      [] OTHER -> 1

ExitCodeFor(type) ==
    CASE type \in {"approve", "skip", "text"} -> 0
      [] type \in {"deny", "timeout"} -> 2
      [] OTHER -> 1

\* main, lines 839-861: what the switch writes to standard error.
StderrFor(type) ==
    CASE type \in {"approve", "skip", "text"} -> <<>>
      [] type = "deny" -> <<"User denied this action via Telegram.">>
      [] type = "timeout" ->
           <<"Timeout waiting for response via Telegram. Action denied for safety.">>
      [] OTHER -> <<"Unexpected response type">>

\* main, lines 850-854: what the switch writes to standard output.
MutStdoutFor(type, text) ==
    IF type \in {"text", "skip"} THEN <<JsonLine("User response via Telegram: " \o text)>>
    ELSE <<>>

StdoutFor(type, text) ==
    IF type = "text" THEN <<JsonLine("User response via Telegram: " \o text)>>
    ELSE <<>>

\* stdin.trim()
Trim(text) == IF text = " " THEN "" ELSE text

\* JSON.parse raises on text that is not JSON.
IsJson(text) == text \notin {"", " ", "{"}

\* JSON.parse of a text that is JSON.
JsonParse(text) ==
    CASE text = "null" -> NullInput
      [] text = "{}" -> HookInput("")
      [] text = "{\"notification_type\":\"permission_prompt\"}" -> HookInput("permission_prompt")
      [] text = "{\"notification_type\":\"idle_prompt\"}" -> HookInput("idle_prompt")

\* readStdinJson, lines 710-720.
MutReadStdinJson(text) ==
    IF Trim(text) = "" THEN NullInput
    ELSE IF ~IsJson(text) THEN HookInput("")
    ELSE JsonParse(text)

ReadStdinJson(text) ==
    IF Trim(text) = "" THEN NullInput
    ELSE IF ~IsJson(text) THEN NullInput
    ELSE JsonParse(text)

\* main, line 801: input.notification_type ?? "notification".
MutNotificationType(hookInput) ==
    IF hookInput.notification_type = "" THEN "permission_prompt"
    ELSE hookInput.notification_type

NotificationType(hookInput) ==
    IF hookInput.notification_type = "" THEN "notification"
    ELSE hookInput.notification_type

\* loadConfig: the message of the error it raises, "" when it returns.
MutLoadConfigError(c) ==
    CASE c = "missing" -> "Config not found"
      [] OTHER -> ""

LoadConfigError(c) ==
    CASE c = "missing" -> "Config not found"
      [] c \in {"no botToken", "no chatId"} -> "Invalid config: missing botToken or chatId."
      [] OTHER -> ""

\* apiCall, lines 315-332: one fetch; it raises when fetch or response.json()
\* raises and when the body has ok = false. replies are the platform's
\* answers to the requests in their order.
MutApiCall(replies) ==
    IF Head(replies) \notin {"username", "no username"} /\ Len(replies) > 1
      THEN [requests |-> 2,
            raised |-> replies[2] \notin {"username", "no username"},
            result |-> replies[2]]
      ELSE [requests |-> 1,
            raised |-> Head(replies) \notin {"username", "no username"},
            result |-> Head(replies)]

ApiCall(replies) ==
    [requests |-> 1,
     raised |-> Head(replies) \notin {"username", "no username"},
     result |-> Head(replies)]

\* testConnection, lines 533-540: apiCall raises on a network error, on a
\* body that is not JSON and on ok = false; the catch returns false.
MutTestConnection(result) == result \in {"username", "no username"}

TestConnection(result) == result = "username"

\* One invocation of a gateway operation (lines 334-378 and 533-540): each
\* is one apiCall; testConnection turns a raise into false.
GatewayOperation(method, replies) ==
    LET call == ApiCall(replies) IN
    [requests |-> call.requests,
     outcome |-> IF method = "testConnection"
                   THEN (IF ~call.raised /\ TestConnection(call.result)
                           THEN "true" ELSE "false")
                 ELSE IF call.raised THEN "raised"
                 ELSE "returned"]

\* One button of an inline keyboard.
Button(text, data) == [text |-> text, callback_data |-> data]

\* sendNotificationWithButtons, lines 388-407: the inline_keyboard it sends.
MutSendNotificationWithButtons(includeReplyButton) ==
    <<<<Button("Approve", "approve"), Button("Deny", "deny")>>>>
    \o (IF includeReplyButton
          THEN <<<<Button("Skip", "skip"), Button("Reply", "text")>>>>
          ELSE <<>>)

SendNotificationWithButtons(includeReplyButton) ==
    <<<<Button("Approve", "approve"), Button("Deny", "deny")>>>>
    \o (IF includeReplyButton
          THEN <<<<Button("Skip", "skip"), Button("Reply", "reply")>>>>
          ELSE <<>>)

\* createApprovalKeyboard, lines 543-556.
CreateApprovalKeyboard ==
    <<<<Button("Approve", "approve"), Button("Deny", "deny")>>,
      <<Button("Skip", "skip"), Button("Reply", "reply")>>>>

\* String.prototype.replace(/ch/g, by).
RECURSIVE ReplaceAll(_, _, _)
ReplaceAll(text, ch, by) ==
    IF text = <<>> THEN <<>>
    ELSE (IF Head(text) = ch THEN by ELSE <<Head(text)>>)
         \o ReplaceAll(Tail(text), ch, by)

\* escapeHtml, lines 703-708.
MutEscapeHtml(text) ==
    ReplaceAll(ReplaceAll(text, "&", <<"&", "a", "m", "p", ";">>),
               "<", <<"&", "l", "t", ";">>)

EscapeHtml(text) ==
    ReplaceAll(ReplaceAll(ReplaceAll(text, "&", <<"&", "a", "m", "p", ";">>),
                          "<", <<"&", "l", "t", ";">>),
               ">", <<"&", "g", "t", ";">>)

\* formatNotificationMessage, lines 690-696: the message cut at maxLen.
Truncate(text) ==
    IF Len(text) > maxLen THEN SubSeq(text, 1, maxLen) \o <<".", ".", ".">>
    ELSE text

\* formatNotificationMessage, lines 675-701; each piece of markup is one
\* element of the message.
FormatNotificationMessage(c) ==
    <<"<b>Claude Code</b>\n\n", "<b>Project:</b> ">> \o EscapeHtml(c.projectName)
    \o (IF c.gitBranch # <<>>
          THEN <<" (<code>">> \o EscapeHtml(c.gitBranch) \o <<"</code>)">>
          ELSE <<>>)
    \o <<"\n">>
    \o (IF c.toolName # <<>>
          THEN <<"<b>Tool:</b> ">> \o EscapeHtml(c.toolName) \o <<"\n">>
          ELSE <<>>)
    \o <<"<b>Event:</b> ">> \o EscapeHtml(c.eventType) \o <<"\n\n">>
    \o (IF c.message # <<>>
          THEN <<"<pre>">> \o EscapeHtml(Truncate(c.message)) \o <<"</pre>">>
          ELSE <<>>)

\* main, lines 788-793: the context of the stop notice has its own event
\* type and message and no tool name.
StopContext(c) ==
    [c EXCEPT !.eventType = <<"a">>, !.message = <<"a">>, !.toolName = <<>>]

\* The gateway call that the process awaits at position p, "none" where it
\* awaits none.
GatewayCall(p) ==
    IF p \in {"drain", "getUpdates"} THEN "getUpdates"
    ELSE IF p \in {"answerCallbackQuery", "editMessageReplyMarkup"} THEN p
    ELSE IF p \in {"main", "testSend", "sendSimpleNotification", "sendMessage"}
      THEN "sendMessage"
    ELSE IF p = "testConnection" THEN "getMe"
    ELSE "none"

\* await: the process goes on from position p when the call it issued last
\* has returned or raised.
MutSettled(f, p) == f

Settled(f, p) ==
    IF GatewayCall(p) # "none" /\ f # <<>> THEN SubSeq(f, 1, Len(f) - 1) ELSE f

\* The call of position p is issued when the process reaches p.
Issued(f, p) ==
    IF GatewayCall(p) # "none" THEN Append(f, GatewayCall(p)) ELSE f

Min(a, b) == IF a < b THEN a ELSE b

\* The locals of processUpdates are dead once it has returned or raised.
NoBatch ==
    /\ batchLo' = 1
    /\ batchHi' = 0
    /\ idx' = 1
    /\ currentWaitingForText' = FALSE

\* The process is inside the while loop of waitForResponse.
InLoop ==
    pc \in {"while", "getUpdates", "for", "answerCallbackQuery",
            "editMessageReplyMarkup", "sendMessage", "handleTextMessage", "sleep"}

\* -------------------------------------------------------------- initial
\* The state of the process when main begins.
InitProcess ==
    /\ pc = "args"
    /\ configFile = "kept"
    /\ input = NullInput
    /\ clientBuilt = FALSE
    /\ me = "none"
    /\ notices = 0
    /\ polled = FALSE
    /\ keyboard = <<>>
    /\ calls = <<>>
    /\ stdout = <<>>
    /\ stderr = <<>>
    /\ msg = <<>>
    /\ inFlight = <<>>
    /\ sentMessageId = NoMsg
    /\ lastUpdateId = InitialUpdateId
    /\ waitingForText = FALSE
    /\ currentWaitingForText = FALSE
    /\ batchLo = 1
    /\ batchHi = 0
    /\ idx = 1
    /\ now = 0
    /\ startTime = 0
    /\ response = "none"
    /\ content = ""
    /\ exitCode = -1
    /\ queuedAtSend = 0
    /\ queuedAtBegin = 0
    /\ delivered = {}
    /\ examined = [i \in 1..MaxQueue |-> 0]
    /\ decidedBy = 0
    /\ replyAt = 0
    /\ legacyWaitingForText = FALSE
    /\ failStreak = 0
    /\ lastPollOk = FALSE
    /\ pollsAfterResponse = 0

Init ==
    /\ queue \in {<<>>} \cup {<<u>> : u \in ForeignUpdates}
    /\ args \in SUBSET Flags
    /\ stdin \in Stdins
    /\ config \in Configs
    /\ context = PlainContext
    /\ api = IdleApi
    /\ wizard = IdleWizard
    /\ InitProcess

\* Runs that send the prompt and wait for the response.
InitCycles ==
    /\ queue \in {<<>>} \cup {<<u>> : u \in ForeignUpdates}
    /\ args = {}
    /\ stdin = "{\"notification_type\":\"permission_prompt\"}"
    /\ config = "ok"
    /\ context = PlainContext
    /\ api = IdleApi
    /\ wizard = IdleWizard
    /\ InitProcess

\* Runs that send the prompt and wait, with no update queued before.
InitChat ==
    /\ queue = <<>>
    /\ args = {}
    /\ stdin = "{\"notification_type\":\"permission_prompt\"}"
    /\ config = "ok"
    /\ context = PlainContext
    /\ api = IdleApi
    /\ wizard = IdleWizard
    /\ InitProcess

\* Runs that send a notification, with any text in a field of the context.
InitEscape ==
    /\ queue = <<>>
    /\ args \in {{}, {"--event=stop"}}
    /\ stdin \in {"{\"notification_type\":\"permission_prompt\"}",
                  "{\"notification_type\":\"idle_prompt\"}"}
    /\ config = "ok"
    /\ context \in Contexts
    /\ api = IdleApi
    /\ wizard = IdleWizard
    /\ InitProcess

\* One gateway operation of a client, with the answers the platform would
\* give to its requests.
InitApi ==
    /\ queue = <<>>
    /\ args = {}
    /\ stdin = ""
    /\ config = "ok"
    /\ context = PlainContext
    /\ api \in {[method |-> m, replies |-> r, requests |-> 0, outcome |-> "none"] :
                  m \in Methods, r \in ReplySeqs}
    /\ wizard = IdleWizard
    /\ InitProcess

\* One run of the setup wizard, with or without a configuration and a
\* settings file on disk.
InitSetup ==
    /\ queue = <<>>
    /\ args = {"--setup"}
    /\ stdin = ""
    /\ config = "ok"
    /\ context = PlainContext
    /\ api = IdleApi
    /\ wizard \in {[IdleWizard EXCEPT !.pc = "runSetupWizard",
                                      !.configFile0 = c, !.configFile = c,
                                      !.settings0 = f, !.settings = f] :
                     c \in {NoConfigFile, OldConfigFile}, f \in SettingsFiles}
    /\ InitProcess

\* ------------------------------------------------------------- platform
\* The human (or anybody else) acts: one more update is queued.  A button of
\* the prompt can be pressed only once the prompt exists.  The process sees
\* the queue when it sends the prompt, begins the wait, drains and polls, so
\* an arrival is taken right before one of these steps.
ArriveFrom(shapes, bound) ==
    /\ Len(queue) < bound
    /\ pc \in {"main", "waitForResponse", "drain", "getUpdates"}
    /\ \E u \in shapes :
          queue' = Append(queue, u)
    /\ UNCHANGED <<pc, sentMessageId, lastUpdateId, waitingForText,
                   currentWaitingForText, batchLo, batchHi, idx, now,
                   startTime, response, content, exitCode, histVars>>
    /\ UNCHANGED <<mainVars, me, polled, keyboard, calls, stdout, stderr>>
    /\ UNCHANGED <<context, msg, inFlight, api, wizard>>

Arrive ==
    ArriveFrom(ForeignUpdates \cup (IF sentMessageId # NoMsg THEN OurCallbacks ELSE {}),
               MaxUpdates)

\* The updates of a reply dialogue: Reply or a button with an unknown token
\* is pressed on the prompt, or a text is typed.
ReplyDialogue ==
    {Callback(OurMsg, "reply"), Callback(OurMsg, "other"),
     TextMessage("hello"), TextMessage("/cancel")}

ArriveLong ==
    ArriveFrom(IF sentMessageId # NoMsg THEN ReplyDialogue ELSE {TextMessage("hello")},
               MaxQueue)

\* ----------------------------------------------------------------- main
\* main, lines 726-729: printHelp and process.exit(0).
PrintHelp ==
    /\ pc = "args"
    /\ "--help" \in args
    /\ stdout' = <<TextLine("claude-telegram - Telegram notifications for Claude Code")>>
    /\ exitCode' = 0
    /\ pc' = "exit"
    /\ UNCHANGED <<mainVars, me, clientVars, polled, stderr>>
    /\ UNCHANGED <<context, msg, api, wizard>>
    /\ inFlight' = Issued(Settled(inFlight, pc), pc')

\* main, lines 731-734.
PrintVersion ==
    /\ pc = "args"
    /\ "--help" \notin args
    /\ "--version" \in args
    /\ stdout' = <<TextLine(VERSION)>>
    /\ exitCode' = 0
    /\ pc' = "exit"
    /\ UNCHANGED <<mainVars, me, clientVars, polled, stderr>>
    /\ UNCHANGED <<context, msg, api, wizard>>
    /\ inFlight' = Issued(Settled(inFlight, pc), pc')

\* main, lines 737-740, with runSetupWizard: the wizard stops when the user
\* keeps an existing configuration, raises on a token of the wrong shape,
\* and otherwise fetches the updates once, constructs a client and sends
\* the test message; it exits 1 when that message cannot be sent.
RunSetup ==
    /\ pc = "args"
    /\ {"--help", "--version"} \cap args = {}
    /\ "--setup" \in args
    /\ \E r \in SetupResults :
          /\ r = "cancelled" => config # "missing"
          /\ polled' = (r \in {"not connected", "complete"})
          /\ clientBuilt' = (r \in {"not connected", "complete"})
          /\ notices' = IF r = "complete" THEN 1 ELSE 0
          /\ configFile' = IF r = "complete" THEN "saved" ELSE "kept"
          /\ stdout' = <<TextLine("Claude Code Telegram Setup")>>
          /\ stderr' = IF r = "not connected"
                         THEN <<"Failed to send test message:",
                                "Failed to connect. Please check your token and chat ID.">>
                         ELSE <<>>
          /\ exitCode' = CASE r \in {"cancelled", "complete"} -> 0
                            [] r = "not connected" -> 1
                            [] OTHER -> exitCode
          /\ pc' = IF r = "invalid token" THEN "catch" ELSE "exit"
    /\ UNCHANGED <<args, stdin, config, input, me, clientVars>>
    /\ UNCHANGED <<context, msg, api, wizard>>
    /\ inFlight' = Issued(Settled(inFlight, pc), pc')

\* main, lines 743-746, with runUninstall, which catches what it raises.
RunUninstall ==
    /\ pc = "args"
    /\ {"--help", "--version", "--setup"} \cap args = {}
    /\ "--uninstall" \in args
    /\ configFile' = "removed"
    /\ stdout' = <<TextLine("Uninstalling claude-telegram..."), TextLine("Uninstall complete!")>>
    /\ exitCode' = 0
    /\ pc' = "exit"
    /\ UNCHANGED <<args, stdin, config, input, clientBuilt, me, notices,
                   clientVars, polled, stderr>>
    /\ UNCHANGED <<context, msg, api, wizard>>
    /\ inFlight' = Issued(Settled(inFlight, pc), pc')

\* main, lines 751-760: loadConfig and new TelegramClient(config).
LoadConfig ==
    /\ pc = "args"
    /\ {"--help", "--version", "--setup", "--uninstall"} \cap args = {}
    /\ IF LoadConfigError(config) # ""
         THEN /\ stderr' = <<LoadConfigError(config)>>
              /\ exitCode' = 1
              /\ pc' = "exit"
              /\ UNCHANGED clientBuilt
         ELSE /\ clientBuilt' = TRUE
              /\ pc' = IF "--test" \in args THEN "testConnection" ELSE "readStdinJson"
              /\ UNCHANGED <<stderr, exitCode>>
    /\ UNCHANGED <<args, stdin, config, configFile, input, me, notices,
                   clientVars, polled, stdout>>
    /\ UNCHANGED <<context, msg, api, wizard>>
    /\ inFlight' = Issued(Settled(inFlight, pc), pc')

\* main, lines 763-775: test mode, the identity call.
RunTestConnection ==
    /\ pc = "testConnection"
    /\ \E r \in GetMeResults :
          /\ me' = r
          /\ IF TestConnection(r)
               THEN /\ pc' = "testSend"
                    /\ stdout' = <<TextLine("Testing Telegram connection...")>>
                    /\ UNCHANGED <<stderr, exitCode>>
               ELSE /\ stdout' = <<TextLine("Testing Telegram connection...")>>
                    /\ stderr' = <<"Failed to connect to Telegram. Check your config.">>
                    /\ exitCode' = 1
                    /\ pc' = "exit"
    /\ UNCHANGED <<mainVars, clientVars, polled>>
    /\ UNCHANGED <<context, msg, api, wizard>>
    /\ inFlight' = Issued(Settled(inFlight, pc), pc')

\* main, lines 766-770: test mode, the test notification.
TestSend ==
    /\ pc = "testSend"
    /\ \E sent \in BOOLEAN :
          IF sent
            THEN /\ notices' = notices + 1
                 /\ stdout' = Append(stdout, TextLine("Success! Check your Telegram."))
                 /\ exitCode' = 0
                 /\ pc' = "exit"
            ELSE /\ pc' = "catch"
                 /\ UNCHANGED <<notices, stdout, exitCode>>
    /\ UNCHANGED <<args, stdin, config, configFile, input, clientBuilt, me,
                   clientVars, polled, stderr>>
    /\ UNCHANGED <<context, msg, api, wizard>>
    /\ inFlight' = Issued(Settled(inFlight, pc), pc')

\* main, lines 779-800 and 873-876: readStdinJson, then the flow of the run.
ReadStdin ==
    /\ pc = "readStdinJson"
    /\ input' = ReadStdinJson(stdin)
    /\ IF "--event=stop" \in args \/ ReadStdinJson(stdin).parsed
         THEN /\ pc' = IF "--event=stop" \notin args
                           /\ NotificationType(ReadStdinJson(stdin)) = "permission_prompt"
                         THEN "main" ELSE "sendSimpleNotification"
              /\ UNCHANGED <<stderr, exitCode>>
         ELSE /\ stderr' = <<"No input received. This script should be called by Claude Code hooks.">>
              /\ exitCode' = 1
              /\ pc' = "exit"
    /\ UNCHANGED <<args, stdin, config, configFile, clientBuilt, me, notices,
                   clientVars, polled, stdout>>
    /\ msg' = IF "--event=stop" \in args
                THEN FormatNotificationMessage(StopContext(context))
              ELSE IF ReadStdinJson(stdin).parsed
                THEN FormatNotificationMessage(context)
              ELSE msg
    /\ UNCHANGED <<context, api, wizard>>
    /\ inFlight' = Issued(Settled(inFlight, pc), pc')

\* main, lines 788-797 and 822-824: the plain notice of the stop event or
\* of a notification that is no permission prompt, and process.exit(0).
SendSimpleNotification ==
    /\ pc = "sendSimpleNotification"
    /\ \E sent \in BOOLEAN :
          IF sent
            THEN /\ notices' = notices + 1
                 /\ exitCode' = 0
                 /\ pc' = "exit"
            ELSE /\ pc' = "catch"
                 /\ UNCHANGED <<notices, exitCode>>
    /\ UNCHANGED <<args, stdin, config, configFile, input, clientBuilt, me,
                   clientVars, polled, stdout, stderr>>
    /\ UNCHANGED <<context, msg, api, wizard>>
    /\ inFlight' = Issued(Settled(inFlight, pc), pc')

\* main, lines 816-820: sendNotificationWithButtons succeeds; the platform
\* has created the message when the call returns.
SendPromptOk ==
    /\ pc = "main"
    /\ sentMessageId' = OurMsg
    /\ queuedAtSend' = Len(queue)
    /\ pc' = "waitForResponse"
    /\ UNCHANGED <<queue, lastUpdateId, waitingForText, currentWaitingForText,
                   batchLo, batchHi, idx, now, startTime, response, content,
                   exitCode, queuedAtBegin, delivered, examined, decidedBy, replyAt, legacyWaitingForText,
                   failStreak, lastPollOk, pollsAfterResponse>>
    /\ keyboard' = SendNotificationWithButtons(TRUE)
    /\ UNCHANGED <<mainVars, me, polled, calls, stdout, stderr>>
    /\ UNCHANGED <<context, msg, api, wizard>>
    /\ inFlight' = Issued(Settled(inFlight, pc), pc')

\* The send raises: main().catch, lines 879-882.
SendPromptFail ==
    /\ pc = "main"
    /\ pc' = "catch"
    /\ UNCHANGED <<queue, sentMessageId, lastUpdateId, waitingForText,
                   currentWaitingForText, batchLo, batchHi, idx, now,
                   startTime, response, content, exitCode, histVars>>
    /\ UNCHANGED <<mainVars, me, polled, keyboard, calls, stdout, stderr>>
    /\ UNCHANGED <<context, msg, api, wizard>>
    /\ inFlight' = Issued(Settled(inFlight, pc), pc')

\* waitForResponse, lines 505-508.
WaitBegin ==
    /\ pc = "waitForResponse"
    /\ startTime' = now
    /\ waitingForText' = FALSE
    /\ legacyWaitingForText' = FALSE
    /\ queuedAtBegin' = Len(queue)
    /\ pc' = "drain"
    /\ UNCHANGED <<queue, sentMessageId, lastUpdateId, currentWaitingForText,
                   batchLo, batchHi, idx, now, response, content, exitCode,
                   queuedAtSend, delivered, examined, decidedBy, replyAt, failStreak,
                   lastPollOk, pollsAfterResponse>>
    /\ UNCHANGED <<mainVars, me, polled, keyboard, calls, stdout, stderr>>
    /\ UNCHANGED <<context, msg, api, wizard>>
    /\ inFlight' = Issued(Settled(inFlight, pc), pc')

\* clearPendingUpdates, lines 380-386: getUpdates(undefined, 0) returns all
\* the queued updates.
ClearPendingUpdatesOk ==
    /\ pc = "drain"
    /\ lastUpdateId' = DrainedCursor(Len(queue), lastUpdateId)
    /\ pc' = "while"
    /\ UNCHANGED <<queue, sentMessageId, waitingForText, currentWaitingForText,
                   batchLo, batchHi, idx, now, startTime, response, content,
                   exitCode, histVars>>
    /\ polled' = TRUE
    /\ UNCHANGED <<mainVars, me, keyboard, calls, stdout, stderr>>
    /\ UNCHANGED <<context, msg, api, wizard>>
    /\ inFlight' = Issued(Settled(inFlight, pc), pc')

\* The drain poll raises; line 510 is outside the try block, so
\* waitForResponse raises and main().catch runs.
ClearPendingUpdatesFail ==
    /\ pc = "drain"
    /\ response' = "raised"
    /\ pc' = "catch"
    /\ UNCHANGED <<queue, sentMessageId, lastUpdateId, waitingForText,
                   currentWaitingForText, batchLo, batchHi, idx, now,
                   startTime, content, exitCode, histVars>>
    /\ polled' = TRUE
    /\ UNCHANGED <<mainVars, me, keyboard, calls, stdout, stderr>>
    /\ UNCHANGED <<context, msg, api, wizard>>
    /\ inFlight' = Issued(Settled(inFlight, pc), pc')

\* waitForResponse, line 512 and line 530.
WhileCheck ==
    /\ pc = "while"
    /\ IF BeforeDeadline(now, startTime)
         THEN /\ pc' = "getUpdates"
              /\ UNCHANGED response
         ELSE /\ pc' = "switch"
              /\ response' = "timeout"
    /\ UNCHANGED <<queue, sentMessageId, lastUpdateId, waitingForText,
                   currentWaitingForText, batchLo, batchHi, idx, now,
                   startTime, content, exitCode, histVars>>
    /\ UNCHANGED <<mainVars, me, polled, keyboard, calls, stdout, stderr>>
    /\ UNCHANGED <<context, msg, api, wizard>>
    /\ inFlight' = Issued(Settled(inFlight, pc), pc')

\* waitForResponse, lines 514-519: getUpdates(this.lastUpdateId, 5) returns.
\* With updates queued it returns at once or (they came during the wait)
\* after d seconds; without any it returns [] after the whole wait.
GetUpdatesOk ==
    /\ pc = "getUpdates"
    /\ \E d \in 0..PollWait :
          /\ (FirstReturned(lastUpdateId) > Len(queue)) => d = PollWait
          /\ now' = now + d
    /\ batchLo' = FirstReturned(lastUpdateId)
    /\ batchHi' = Len(queue)
    /\ idx' = FirstReturned(lastUpdateId)
    /\ currentWaitingForText' = waitingForText
    /\ delivered' = delivered \cup (FirstReturned(lastUpdateId)..Len(queue))
    /\ lastPollOk' = TRUE
    /\ failStreak' = IF lastPollOk THEN 0 ELSE failStreak
    /\ pollsAfterResponse' = IF response # "none" THEN 1 ELSE pollsAfterResponse
    /\ pc' = "for"
    /\ UNCHANGED <<queue, sentMessageId, lastUpdateId, waitingForText,
                   startTime, response, content, exitCode, queuedAtSend,
                   queuedAtBegin, examined, decidedBy, replyAt, legacyWaitingForText>>
    /\ polled' = TRUE
    /\ UNCHANGED <<mainVars, me, keyboard, calls, stdout, stderr>>
    /\ UNCHANGED <<context, msg, api, wizard>>
    /\ inFlight' = Issued(Settled(inFlight, pc), pc')

\* getUpdates raises, at once or after up to the wait: catch, line 525.
GetUpdatesFail ==
    /\ pc = "getUpdates"
    /\ \E d \in 0..PollWait : now' = now + d
    /\ failStreak' = 1
    /\ lastPollOk' = FALSE
    /\ pollsAfterResponse' = IF response # "none" THEN 1 ELSE pollsAfterResponse
    /\ pc' = "sleep"
    /\ UNCHANGED <<queue, sentMessageId, lastUpdateId, waitingForText,
                   currentWaitingForText, batchLo, batchHi, idx, startTime,
                   response, content, exitCode, queuedAtSend, queuedAtBegin,
                   delivered, examined, decidedBy, replyAt, legacyWaitingForText>>
    /\ polled' = TRUE
    /\ UNCHANGED <<mainVars, me, keyboard, calls, stdout, stderr>>
    /\ UNCHANGED <<context, msg, api, wizard>>
    /\ inFlight' = Issued(Settled(inFlight, pc), pc')

\* waitForResponse, line 526: await this.sleep(1000).
Sleep ==
    /\ pc = "sleep"
    /\ now' = SleepEnd(now, BackoffSecs)
    /\ pc' = "while"
    /\ NoBatch
    /\ UNCHANGED <<queue, sentMessageId, lastUpdateId, waitingForText,
                   startTime, response, content, exitCode, histVars>>
    /\ calls' = <<>>
    /\ UNCHANGED <<mainVars, me, polled, keyboard, stdout, stderr>>
    /\ UNCHANGED <<context, msg, api, wizard>>
    /\ inFlight' = Issued(Settled(inFlight, pc), pc')

\* processUpdates, lines 472-478 and 494, with handleCallbackQuery's lines
\* 417-426: the next update of the batch, or the end of the batch
\* (waitForResponse, lines 521-524).
ForNext ==
    /\ pc = "for"
    /\ IF idx > batchHi
         THEN /\ waitingForText' = currentWaitingForText
              /\ pc' = "while"
              /\ NoBatch
              /\ UNCHANGED <<lastUpdateId, examined>>
         ELSE /\ lastUpdateId' = NextCursor(idx)
              /\ examined' = [examined EXCEPT ![idx] = Min(@ + 1, 2)]
              /\ pc' = IF MatchesSentMessage(queue[idx], sentMessageId)
                         THEN "answerCallbackQuery" ELSE "handleTextMessage"
              /\ UNCHANGED <<waitingForText, currentWaitingForText, batchLo,
                             batchHi, idx>>
    /\ UNCHANGED <<queue, sentMessageId, now, startTime, response, content, exitCode,
                   queuedAtSend, queuedAtBegin, delivered, decidedBy, replyAt, legacyWaitingForText,
                   failStreak, lastPollOk, pollsAfterResponse>>
    /\ calls' = <<>>
    /\ UNCHANGED <<mainVars, me, polled, keyboard, stdout, stderr>>
    /\ UNCHANGED <<context, msg, api, wizard>>
    /\ inFlight' = Issued(Settled(inFlight, pc), pc')

\* handleCallbackQuery, line 428.
AnswerCallbackQueryOk ==
    /\ pc = "answerCallbackQuery"
    /\ pc' = "editMessageReplyMarkup"
    /\ UNCHANGED <<queue, sentMessageId, lastUpdateId, waitingForText,
                   currentWaitingForText, batchLo, batchHi, idx, now,
                   startTime, response, content, exitCode, histVars>>
    /\ calls' = Append(calls, pc)
    /\ UNCHANGED <<mainVars, me, polled, keyboard, stdout, stderr>>
    /\ UNCHANGED <<context, msg, api, wizard>>
    /\ inFlight' = Issued(Settled(inFlight, pc), pc')

\* A side call of handleCallbackQuery raises (lines 428, 429, 441): nothing
\* catches it before waitForResponse's catch, line 525.
SideCallFail ==
    /\ pc \in {"answerCallbackQuery", "editMessageReplyMarkup", "sendMessage"}
    /\ pc' = "sleep"
    /\ UNCHANGED <<queue, sentMessageId, lastUpdateId, waitingForText,
                   currentWaitingForText, batchLo, batchHi, idx, now,
                   startTime, response, content, exitCode, histVars>>
    /\ calls' = Append(calls, pc)
    /\ UNCHANGED <<mainVars, me, polled, keyboard, stdout, stderr>>
    /\ UNCHANGED <<context, msg, api, wizard>>
    /\ inFlight' = Issued(Settled(inFlight, pc), pc')

\* handleCallbackQuery, lines 429-445, and processUpdates, lines 479-486.
EditMessageReplyMarkupOk ==
    /\ pc = "editMessageReplyMarkup"
    /\ LET result == CallbackResult(queue[idx].data) IN
         IF result = "wait_for_text"
           THEN /\ pc' = "sendMessage"
                /\ UNCHANGED <<response, decidedBy>>
         ELSE IF result = "null"
           THEN /\ pc' = "handleTextMessage"
                /\ UNCHANGED <<response, decidedBy>>
         ELSE /\ response' = result
              /\ decidedBy' = idx
              /\ pc' = "switch"
    /\ UNCHANGED <<queue, sentMessageId, lastUpdateId, waitingForText,
                   currentWaitingForText, batchLo, batchHi, idx, now,
                   startTime, content, exitCode, queuedAtSend, queuedAtBegin,
                   delivered, examined, replyAt, failStreak, lastPollOk,
                   pollsAfterResponse>>
    /\ calls' = Append(calls, pc)
    /\ legacyWaitingForText' =
          (legacyWaitingForText \/ CallbackResult(queue[idx].data) = "wait_for_text")
    /\ UNCHANGED <<mainVars, me, polled, keyboard, stdout, stderr>>
    /\ UNCHANGED <<context, msg, api, wizard>>
    /\ inFlight' = Issued(Settled(inFlight, pc), pc')

\* handleCallbackQuery, lines 441-442, and processUpdates, lines 479-480.
SendMessageOk ==
    /\ pc = "sendMessage"
    /\ currentWaitingForText' = TRUE
    /\ replyAt' = idx
    /\ pc' = "handleTextMessage"
    /\ UNCHANGED <<queue, sentMessageId, lastUpdateId, waitingForText, batchLo,
                   batchHi, idx, now, startTime, response, content, exitCode,
                   queuedAtSend, queuedAtBegin, delivered,
                   examined, decidedBy, legacyWaitingForText, failStreak, lastPollOk,
                   pollsAfterResponse>>
    /\ calls' = Append(calls, pc)
    /\ UNCHANGED <<mainVars, me, polled, keyboard, stdout, stderr>>
    /\ UNCHANGED <<context, msg, api, wizard>>
    /\ inFlight' = Issued(Settled(inFlight, pc), pc')

\* processUpdates, lines 488-492, with handleTextMessage.
HandleTextMessage ==
    /\ pc = "handleTextMessage"
    /\ LET result == TextResult(queue[idx], currentWaitingForText) IN
         IF result = "null"
           THEN /\ idx' = idx + 1
                /\ pc' = "for"
                /\ UNCHANGED <<response, content, decidedBy>>
           ELSE /\ response' = result
                /\ content' = IF result = "text" THEN queue[idx].text ELSE ""
                /\ decidedBy' = idx
                /\ pc' = "switch"
                /\ UNCHANGED idx
    /\ UNCHANGED <<queue, sentMessageId, lastUpdateId, waitingForText,
                   currentWaitingForText, batchLo, batchHi, now, startTime,
                   exitCode, queuedAtSend, queuedAtBegin, delivered, examined,
                   replyAt, legacyWaitingForText, failStreak, lastPollOk, pollsAfterResponse>>
    /\ UNCHANGED <<mainVars, me, polled, keyboard, calls, stdout, stderr>>
    /\ UNCHANGED <<context, msg, api, wizard>>
    /\ inFlight' = Issued(Settled(inFlight, pc), pc')

\* main, lines 833-869: switch (response.type) and process.exit.
Switch ==
    /\ pc = "switch"
    /\ exitCode' = ExitCodeFor(response)
    /\ pc' = "exit"
    /\ UNCHANGED <<queue, sentMessageId, lastUpdateId, waitingForText,
                   currentWaitingForText, batchLo, batchHi, idx, now,
                   startTime, response, content, histVars>>
    /\ stdout' = StdoutFor(response, content)
    /\ stderr' = StderrFor(response)
    /\ UNCHANGED <<mainVars, me, polled, keyboard, calls>>
    /\ UNCHANGED <<context, msg, api, wizard>>
    /\ inFlight' = Issued(Settled(inFlight, pc), pc')

\* main().catch, lines 879-882.
Catch ==
    /\ pc = "catch"
    /\ exitCode' = 1
    /\ pc' = "exit"
    /\ UNCHANGED <<queue, sentMessageId, lastUpdateId, waitingForText,
                   currentWaitingForText, batchLo, batchHi, idx, now,
                   startTime, response, content, histVars>>
    /\ stderr' = Append(stderr, "Error: ")
    /\ UNCHANGED <<mainVars, me, polled, keyboard, calls, stdout>>
    /\ UNCHANGED <<context, msg, api, wizard>>
    /\ inFlight' = Issued(Settled(inFlight, pc), pc')

Step ==
    \/ PrintHelp
    \/ PrintVersion
    \/ RunSetup
    \/ RunUninstall
    \/ LoadConfig
    \/ RunTestConnection
    \/ TestSend
    \/ ReadStdin
    \/ SendSimpleNotification
    \/ SendPromptOk
    \/ SendPromptFail
    \/ WaitBegin
    \/ ClearPendingUpdatesOk
    \/ ClearPendingUpdatesFail
    \/ WhileCheck
    \/ GetUpdatesOk
    \/ GetUpdatesFail
    \/ Sleep
    \/ ForNext
    \/ AnswerCallbackQueryOk
    \/ SideCallFail
    \/ EditMessageReplyMarkupOk
    \/ SendMessageOk
    \/ HandleTextMessage
    \/ Switch
    \/ Catch

Next == Arrive \/ Step

Spec == Init /\ [][Next]_vars

\* Runs with a reply dialogue of up to MaxQueue updates.
NextLong == ArriveLong \/ Step

SpecLong == Init /\ [][NextLong]_vars

\* waitForResponse is called again on the same client for the same message
\* after it returned an outcome; the clock is read from this call on.
WaitAgain ==
    /\ pc = "switch"
    /\ response' = "none"
    /\ content' = ""
    /\ now' = 0
    /\ pc' = "waitForResponse"
    /\ UNCHANGED <<queue, sentMessageId, lastUpdateId, waitingForText,
                   currentWaitingForText, batchLo, batchHi, idx, startTime,
                   exitCode, histVars>>
    /\ UNCHANGED <<mainVars, me, polled, keyboard, calls, stdout, stderr>>
    /\ UNCHANGED <<context, msg, api, wizard>>
    /\ inFlight' = Issued(Settled(inFlight, pc), pc')

\* The steps of the process in a run that sends the prompt and waits.
WaitStep ==
    \/ LoadConfig
    \/ ReadStdin
    \/ SendPromptOk
    \/ SendPromptFail
    \/ WaitBegin
    \/ ClearPendingUpdatesOk
    \/ ClearPendingUpdatesFail
    \/ WhileCheck
    \/ GetUpdatesOk
    \/ GetUpdatesFail
    \/ Sleep
    \/ ForNext
    \/ AnswerCallbackQueryOk
    \/ SideCallFail
    \/ EditMessageReplyMarkupOk
    \/ SendMessageOk
    \/ HandleTextMessage
    \/ Switch
    \/ Catch

\* The updates of a wait with irrelevant updates, a decision and a reply
\* dialogue.
ArriveWait ==
    ArriveFrom({TextMessage("hello"), Callback(OtherMsg, "approve")}
                   \cup (IF sentMessageId # NoMsg
                           THEN {Callback(OurMsg, "approve"), Callback(OurMsg, "reply")}
                           ELSE {}),
               MaxUpdates)

\* The runs of a caller that keeps waiting on one client.
NextCycles == ArriveWait \/ WaitStep \/ WaitAgain

SpecCycles == InitCycles /\ [][NextCycles]_vars

\* The runs of one wait in which the process keeps running: every gateway
\* call returns or fails and the clock goes on; the human need not act.
NextWait == ArriveWait \/ WaitStep

SpecWait == InitCycles /\ [][NextWait]_vars /\ WF_vars(WaitStep)

\* The updates of a reply dialogue, from any chat and sender.
ArriveChat ==
    ArriveFrom({From(u, o) : u \in {TextMessage("hello")}
                                  \cup (IF sentMessageId # NoMsg
                                          THEN {Callback(OurMsg, "reply")} ELSE {}),
                             o \in Origins},
               MaxUpdates)

NextChat == ArriveChat \/ WaitStep

SpecChat == InitChat /\ [][NextChat]_vars

\* Everything but the wizard.
processVars ==
    <<queue, pc, sentMessageId, lastUpdateId, waitingForText,
      currentWaitingForText, batchLo, batchHi, idx, now, startTime,
      response, content, exitCode, args, stdin, config, configFile, input,
      clientBuilt, me, notices, polled, keyboard, calls, stdout, stderr,
      context, msg, inFlight, api, histVars>>

\* runSetupWizard up to the question on an existing configuration.
RunSetupWizard ==
    /\ wizard.pc = "runSetupWizard"
    /\ IF wizard.configFile.exists
       THEN \E line \in AnswerLines :
              LET reconfigure == Prompt(line) IN
                wizard' = [wizard EXCEPT
                    !.prompted = @ \cup {"reconfigure"},
                    !.reconfigure = reconfigure,
                    !.pc = IF Reconfigures(reconfigure)
                           THEN "getBotToken" ELSE "cancelled"]
       ELSE wizard' = [wizard EXCEPT !.pc = "getBotToken"]
    /\ UNCHANGED processVars

GetBotToken ==
    /\ wizard.pc = "getBotToken"
    /\ \E line \in TokenLines :
         LET token == Prompt(line) IN
           wizard' = [wizard EXCEPT
               !.prompted = @ \cup {"token"},
               !.token = token,
               !.botToken = IF Includes(token, ":") THEN token ELSE @,
               !.pc = IF Includes(token, ":") THEN "getChatId" ELSE "raised"]
    /\ UNCHANGED processVars

\* getChatId: the chat of the last update, or the id typed when none is
\* found or the request fails.
GetChatId ==
    /\ wizard.pc = "getChatId"
    /\ \/ /\ wizard.botToken = RealToken
          /\ \E chatId \in {RealChat, <<"7">>} :
               wizard' = [wizard EXCEPT !.chatId = chatId, !.pc = "testConnection"]
       \/ \E line \in ChatLines :
             wizard' = [wizard EXCEPT !.prompted = @ \cup {"chat"},
                                      !.chatId = Prompt(line),
                                      !.pc = "testConnection"]
    /\ UNCHANGED processVars

\* testConnection and the test of its result in runSetupWizard.
SetupTestConnection ==
    /\ wizard.pc = "testConnection"
    /\ \E connected \in {FALSE}
                         \cup (IF wizard.botToken = RealToken /\ wizard.chatId = RealChat
                               THEN {TRUE} ELSE {}) :
         wizard' = [wizard EXCEPT
             !.connected = IF connected THEN "sent" ELSE "failed",
             !.pc = IF ExitsUnconnected(connected) THEN "exit" ELSE "saveConfig"]
    /\ UNCHANGED processVars

\* saveConfig writes the file or raises.
SaveConfig ==
    /\ wizard.pc = "saveConfig"
    /\ LET stored == [exists |-> TRUE, botToken |-> wizard.botToken,
                      chatId |-> wizard.chatId] IN
         \/ wizard' = [wizard EXCEPT !.saveConfigCalls = Append(@, stored),
                                      !.configFile = stored,
                                      !.pc = "installHooksAnswer"]
         \/ wizard' = [wizard EXCEPT !.saveConfigCalls = Append(@, stored),
                                      !.pc = "raised"]
    /\ UNCHANGED processVars

InstallHooksAnswer ==
    /\ wizard.pc = "installHooksAnswer"
    /\ \E line \in AnswerLines :
         wizard' = [wizard EXCEPT
             !.prompted = @ \cup {"hooks"},
             !.pc = IF ToLowerCase(Prompt(line)) # <<"n">>
                    THEN "installHooks" ELSE "returned"]
    /\ UNCHANGED processVars

\* installHooks merges the hooks into the settings and writes them; a
\* settings file that is not JSON, or a failed write, leaves the file.
InstallHooks ==
    /\ wizard.pc = "installHooks"
    /\ \/ /\ ~(wizard.settings.exists /\ ~wizard.settings.json)
          /\ wizard' = [wizard EXCEPT
                 !.installHooksCalled = TRUE,
                 !.settings = [exists |-> TRUE, json |-> TRUE,
                               hooks |-> @.hooks \cup hooksConfig],
                 !.pc = "returned"]
       \/ wizard' = [wizard EXCEPT !.installHooksCalled = TRUE, !.pc = "returned"]
    /\ UNCHANGED processVars

NextSetup ==
    \/ RunSetupWizard
    \/ GetBotToken
    \/ GetChatId
    \/ SetupTestConnection
    \/ SaveConfig
    \/ InstallHooksAnswer
    \/ InstallHooks

SpecSetup == InitSetup /\ [][NextSetup]_vars

\* A gateway operation is invoked once and comes back.
InvokeGateway ==
    /\ api.method # "none"
    /\ api.outcome = "none"
    /\ LET op == GatewayOperation(api.method, api.replies) IN
         api' = [api EXCEPT !.requests = op.requests, !.outcome = op.outcome]
    /\ UNCHANGED <<pc, exitCode, mainVars, me, clientVars, polled, stdout, stderr,
                   context, msg, inFlight, wizard>>

NextApi == InvokeGateway

SpecApi == InitApi /\ [][NextApi]_vars

\* The runs of InitEscape up to the send of the notification.
NextEscape ==
    \/ LoadConfig
    \/ ReadStdin
    \/ SendSimpleNotification
    \/ SendPromptOk
    \/ SendPromptFail
    \/ Catch

SpecEscape == InitEscape /\ [][NextEscape]_vars

\* ------------------------------------------------------------ type check
TypeOK ==
    /\ Len(queue) <= MaxQueue
    /\ lastUpdateId \in 0..(MaxQueue + 1)
    /\ response \in {"none", "approve", "deny", "skip", "text", "timeout", "raised"}
    /\ exitCode \in {-1, 0, 1, 2}
    /\ now \in 0..(TimeoutSecs + PollWait + BackoffSecs)

\* ---------------------------------------------------- claim vocabulary
Outcomes == {"approve", "deny", "skip", "text", "timeout"}

Decisive == {"approve", "deny", "skip"}

\* Update i is an activation of a button of the prompt with this token.
IsPress(i, token) ==
    /\ i \in 1..Len(queue)
    /\ queue[i].kind = "callback_query"
    /\ queue[i].mid = OurMsg
    /\ queue[i].data = token

\* waitForResponse has been called and has ended.
WaitEnded == sentMessageId # NoMsg /\ pc \in {"switch", "catch", "exit"}

\* The process is handling the update idx of the batch.
InUpdate ==
    pc \in {"answerCallbackQuery", "editMessageReplyMarkup", "sendMessage",
            "handleTextMessage"}

\* C1: waitForResponse returns approve (deny) only if a poll slice of this
\* wait cycle delivered an activation of the waited message with the token
\* approve (deny), whatever polls and side calls failed.
C1_DecisionOnlyIfPressed ==
    /\ response = "approve" => \E i \in delivered : IsPress(i, "approve")
    /\ response = "deny" => \E i \in delivered : IsPress(i, "deny")

\* C1 witness: approve is returned in a slice that follows a failed slice.
C1_Witness == response = "approve" /\ lastPollOk /\ failStreak >= 1

\* C2 (stated as claimed): for a permission_prompt input the exit code is 0
\* only after waitForResponse returned approve, skip or text; every other
\* ending exits non-zero.
C2_ExitZeroOnlyOnDecision ==
    ReadStdinJson(stdin) = HookInput("permission_prompt") =>
        /\ exitCode = 0 => response \in {"approve", "skip", "text"}
        /\ (pc = "exit" /\ response \notin {"approve", "skip", "text"}) => exitCode \in {1, 2}

\* C2 (amended): for a permission_prompt input of a run without any of the
\* flags --help, --version, --setup, --uninstall, --test and --event=stop,
\* the exit code is 0 only after waitForResponse returned approve, skip or
\* text; every other ending of such a run exits with 1 or 2.
C2_ExitZeroOnlyOnDecisionWithoutFlags ==
    (ReadStdinJson(stdin) = HookInput("permission_prompt") /\ args \cap Flags = {}) =>
        /\ exitCode = 0 => response \in {"approve", "skip", "text"}
        /\ (pc = "exit" /\ response \notin {"approve", "skip", "text"}) => exitCode \in {1, 2}

\* C2 witness: the run ended on a timeout with a non-zero code.
C2_Witness == pc = "exit" /\ response = "timeout" /\ exitCode # 0

\* C3 (stated as claimed): a consumed activation of the waited message with
\* the token approve, deny or skip still yields its outcome when
\* answerCallbackQuery or editMessageReplyMarkup fails.
C3_DecisionSurvivesSideCallFailure ==
    \A i \in 1..Len(queue) :
        (/\ pc \in {"switch", "exit"}
         /\ examined[i] > 0
         /\ \E t \in Decisive : IsPress(i, t))
        => response \in Decisive \cup {"text"}

\* C4 (stated as claimed): waitForResponse always ends by returning one of
\* the five outcomes, never by raising, the drain poll included.
C4_WaitNeverRaises == WaitEnded => response \in Outcomes

\* C5: every update is examined by processUpdates at most once per wait
\* cycle: a slice starts at the cursor, and the cursor is past every update
\* examined, also after failed slices and failures inside a batch.
C5_ConsumedAtMostOnce ==
    /\ \A i \in 1..MaxUpdates : examined[i] <= 1
    /\ \A i \in 1..MaxUpdates : examined[i] > 0 => lastUpdateId > i
    /\ InUpdate => lastUpdateId = idx + 1
    /\ (pc = "for" /\ idx = batchLo) => batchLo >= lastUpdateId

\* C5 witness: a side call failed on the first update, and the retry went
\* on with the second one.
C5_Witness ==
    /\ Len(queue) = 2
    /\ IsPress(1, "approve")
    /\ examined[1] = 1
    /\ examined[2] = 1
    /\ response = "deny"

\* C6 (stated as claimed): a button of the prompt pressed after the send is
\* not lost: draining discards only updates queued before the prompt was
\* sent, so no activation of the waited message is ever passed by the cursor
\* without having been examined.
C6_NoPressDiscarded ==
    \A i \in 1..Len(queue) :
        (\E t \in CallbackTokens : IsPress(i, t))
        => ~(i < lastUpdateId /\ examined[i] = 0)

\* C7: no update queued before the wait cycle began is delivered by an
\* awaiting-decision poll or decides the outcome; after the drain the cursor
\* is past every such update.
C7_StaleNeverDecides ==
    /\ decidedBy # 0 => decidedBy > queuedAtBegin
    /\ \A i \in 1..queuedAtBegin : i \notin delivered /\ examined[i] = 0
    /\ (InLoop /\ queuedAtBegin > 0) => lastUpdateId > queuedAtBegin

\* C7 witness: a button of the prompt was pressed before the wait cycle
\* began, and a later press decided.
C7_Witness ==
    /\ queuedAtBegin >= 1
    /\ IsPress(1, "approve")
    /\ response = "deny"

\* C8 (stated as claimed): each call of waitForResponse produces exactly one
\* outcome, and it is terminal: the cursor is left right after the deciding
\* update, no later update is examined and no further getUpdates is issued.
C8_ExactlyOneTerminalOutcome ==
    /\ WaitEnded => response \in Outcomes
    /\ decidedBy # 0 =>
          /\ lastUpdateId = decidedBy + 1
          /\ \A i \in 1..MaxUpdates : i > decidedBy => examined[i] = 0
          /\ pollsAfterResponse = 0

\* C9 (stated as claimed): a slice that follows n >= 1 failed slices and
\* delivers, first, an activation of the waited message with the token deny
\* (approve, skip) yields that outcome.
C9_DecisionAfterFailedSlices ==
    \A t \in Decisive :
        (/\ lastPollOk
         /\ failStreak >= 1
         /\ pc \in {"sleep", "while", "switch", "exit"}
         /\ batchLo <= batchHi
         /\ IsPress(batchLo, t))
        => response = t

\* C10 (stated as claimed): when no slice returns an activation of the
\* waited message, the outcome is timeout, returned no earlier than the
\* timeout and no later than the timeout plus one slice (the backoff when the
\* last slice failed).
C10_TimeoutWithinOneSlice ==
    (/\ WaitEnded
     /\ \A i \in delivered : ~(\E t \in CallbackTokens : IsPress(i, t)))
    => /\ response = "timeout"
       /\ now - startTime >= TimeoutSecs
       /\ now - startTime <= TimeoutSecs + (IF lastPollOk THEN PollWait ELSE BackoffSecs)

\* C11 (stated as claimed): a consumed activation of the waited message with
\* the token approve (deny, skip) makes waitForResponse return that outcome,
\* once, after answerCallbackQuery and then editMessageReplyMarkup were
\* issued for it.
C11_ConsumedDecisionReturnedInOrder ==
    \A i \in 1..Len(queue) : \A t \in Decisive :
        (WaitEnded /\ IsPress(i, t) /\ examined[i] > 0)
        => /\ response = t
           /\ decidedBy = i
           /\ examined[i] = 1
           /\ calls = <<"answerCallbackQuery", "editMessageReplyMarkup">>

\* C12 (stated as claimed): once a press of Reply on the waited message has
\* been handled to its end, the first text message consumed decides: skip
\* for exactly "/cancel", otherwise text with that message's text.
C12_FirstTextAfterReplyDecides ==
    \A j \in 1..Len(queue) :
        (/\ WaitEnded
         /\ replyAt # 0
         /\ j > replyAt
         /\ queue[j].kind = "message"
         /\ examined[j] > 0
         /\ \A k \in (replyAt + 1)..(j - 1) : queue[k].kind # "message")
        => /\ decidedBy = j
           /\ response = (IF queue[j].text = "/cancel" THEN "skip" ELSE "text")
           /\ response = "text" => content = queue[j].text

\* A button activation that is not one of the waited message.
IsForeignCallback(update) ==
    update.kind = "callback_query" /\ update.mid # sentMessageId

\* C13: a button activation of another message, or one without message, is
\* ignored whatever its token: when processUpdates handles it the cursor is
\* already past it, no side call is issued for it, and the next step goes on
\* with the loop, with no outcome and the sub-state as it was.
C13_ForeignActivationIgnored ==
    [][(InUpdate /\ IsForeignCallback(queue[idx]))
       => /\ pc = "handleTextMessage"
          /\ lastUpdateId = idx + 1
          /\ calls = <<>>
          /\ pc' # pc =>
                /\ pc' = "for"
                /\ idx' = idx + 1
                /\ response' = "none"
                /\ UNCHANGED <<waitingForText, currentWaitingForText,
                               lastUpdateId, decidedBy, content>>]_vars

\* C13 witness: an approve activation of another message and a deny
\* activation without message went through processUpdates, and the wait
\* goes on without an outcome.
C13_Witness ==
    /\ Len(queue) = 2
    /\ queue[1] = Callback(OtherMsg, "approve")
    /\ queue[2] = Callback(NoMsg, "deny")
    /\ examined[1] = 1
    /\ examined[2] = 1
    /\ lastUpdateId = 3
    /\ pc = "while"
    /\ response = "none"

\* The run took the permission-prompt flow of main (lines 814-869).
PromptFlow ==
    /\ input = HookInput("permission_prompt")
    /\ "--event=stop" \notin args

\* C14: the outcome of waitForResponse decides the exit code: approve, skip
\* and text give 0; deny and timeout give 2 and one line of reason on
\* standard error; any other response type gives 1.
C14_OutcomeToExitCode ==
    /\ (pc = "exit" /\ response \in {"approve", "skip", "text"}) =>
          exitCode = 0 /\ stderr = <<>>
    /\ (pc = "exit" /\ response \in {"deny", "timeout"}) =>
          exitCode = 2 /\ Len(stderr) = 1 /\ stderr[1] # ""
    /\ (pc = "exit" /\ PromptFlow /\ response \notin Outcomes) => exitCode = 1
    /\ \A type \in {"wait_for_text", "none", "raised", "other"} :
          ExitCodeFor(type) = 1 /\ StderrFor(type) # <<>>

\* C14 witness: the human denied, the run ended with 2 and the reason.
C14_Witness ==
    /\ pc = "exit"
    /\ response = "deny"
    /\ exitCode = 2
    /\ stderr = <<"User denied this action via Telegram.">>

\* C15: the permission-prompt flow writes to standard output one JSON line
\* whose systemMessage carries the text of the reply when the outcome is
\* text, and nothing otherwise.
C15_StdoutOnlyForText ==
    PromptFlow =>
        IF pc = "exit" /\ response = "text"
          THEN /\ stdout = <<JsonLine("User response via Telegram: " \o content)>>
               /\ content = queue[decidedBy].text
          ELSE stdout = <<>>

\* C15 witness: the reply hello has been written as the system message.
C15_Witness ==
    /\ pc = "exit"
    /\ response = "text"
    /\ stdout = <<JsonLine("User response via Telegram: hello")>>

\* The flags that end main before it loads the configuration.
EarlyFlags == {"--help", "--version", "--setup", "--uninstall"}

\* Standard input holds an object whose notification kind is missing or is
\* not permission_prompt.
OtherKind ==
    /\ ReadStdinJson(stdin).parsed
    /\ ReadStdinJson(stdin).notification_type # "permission_prompt"

\* The process is in the approval exchange.
InExchange ==
    sentMessageId # NoMsg \/ pc \in {"main", "waitForResponse", "drain"} \/ InLoop

\* C16 (stated as claimed): the exchange runs only for a permission_prompt
\* input outside stop-event and test modes; for every other kind, and in
\* stop-event mode, the run ends with exactly one plain message sent, no
\* getUpdates call and exit code 0.
C16_NoticeOnly ==
    /\ InExchange => PromptFlow /\ "--test" \notin args
    /\ (OtherKind \/ "--event=stop" \in args) =>
          /\ ~InExchange
          /\ ~polled
          /\ pc \in {"catch", "exit"} => notices = 1
          /\ pc = "exit" => exitCode = 0

\* The run reaches readStdinJson: no flag ends it before and loadConfig
\* returns.
ReadsInput ==
    /\ args \cap (EarlyFlags \cup {"--test"}) = {}
    /\ config = "ok"

\* C16 (amended): the exchange runs only for a permission_prompt input
\* outside stop-event and test modes; in a run that reaches readStdinJson,
\* for every other kind and in stop-event mode, at most one plain message is
\* sent, no prompt is sent, no getUpdates call is issued, and the run ends
\* with 0 when the message was sent and with 1 when sending it raised.
C16_NoticeOnlyWhenSent ==
    /\ InExchange => PromptFlow /\ "--test" \notin args
    /\ (ReadsInput /\ (OtherKind \/ "--event=stop" \in args)) =>
          /\ ~InExchange
          /\ ~polled
          /\ notices <= 1
          /\ pc = "catch" => notices = 0
          /\ pc = "exit" => exitCode = (IF notices = 1 THEN 0 ELSE 1)

\* C16 witness: an input without notification kind was notified and the run
\* ended with 0, without a poll.
C16_Witness ==
    /\ stdin = "{}"
    /\ args = {}
    /\ pc = "exit"
    /\ notices = 1
    /\ ~polled
    /\ exitCode = 0

\* C17: text that is not JSON is read as null, as empty input is: the run
\* ends as the flags alone decide, with the stop notice (0, or 1 when the
\* send raised) in stop-event mode and otherwise with 1, "No input
\* received" and no gateway call.
C17_InvalidJsonLikeAbsent ==
    /\ ReadStdinJson("{") = NullInput
    /\ ReadStdinJson("") = NullInput
    /\ stdin \in {"", "{"} =>
          /\ input = NullInput
          /\ ~InExchange
          /\ ReadsInput => ~polled /\ notices <= 1
          /\ (ReadsInput /\ pc = "exit") =>
                IF "--event=stop" \in args
                  THEN exitCode = (IF notices = 1 THEN 0 ELSE 1)
                  ELSE /\ exitCode = 1
                       /\ notices = 0
                       /\ stderr = <<"No input received. This script should be called by Claude Code hooks.">>
          /\ (pc = "catch" /\ ReadsInput) => "--event=stop" \in args

\* C17 witness: a run without flags ended on text that is not JSON.
C17_Witness ==
    /\ stdin = "{"
    /\ args = {}
    /\ clientBuilt
    /\ pc = "exit"
    /\ exitCode = 1

\* The persisted configuration is missing or lacks botToken or chatId.
ConfigIncomplete == config \in {"missing", "no botToken", "no chatId"}

\* C18 (stated as claimed): with the configuration missing or without
\* botToken or chatId the process exits with 1, no TelegramClient is
\* constructed, no message is sent and no poll is issued.
C18_ConfigErrorExitsOne ==
    ConfigIncomplete =>
        /\ ~clientBuilt
        /\ notices = 0
        /\ ~polled
        /\ ~InExchange
        /\ pc = "exit" => exitCode = 1

\* C18 (amended): the same for a run without --help, --version, --setup and
\* --uninstall, the flags main handles before it loads the configuration;
\* the message of loadConfig's error is written to standard error.
C18_ConfigErrorExitsOneAfterFlags ==
    (ConfigIncomplete /\ args \cap EarlyFlags = {}) =>
        /\ ~clientBuilt
        /\ notices = 0
        /\ ~polled
        /\ ~InExchange
        /\ pc \in {"args", "exit"}
        /\ pc = "exit" => exitCode = 1 /\ Len(stderr) = 1 /\ stderr[1] # ""

\* C18 witness: a test run ended on a configuration without chatId.
C18_Witness ==
    /\ config = "no chatId"
    /\ args = {"--test"}
    /\ pc = "exit"
    /\ exitCode = 1

\* C19: testConnection returns true when getMe succeeds with a username and
\* false on every failure; it never raises, so a failed identity call ends
\* the test run with 1 and "Failed to connect", never in main().catch.
C19_TestConnectionNeverRaises ==
    /\ \A r \in GetMeResults : TestConnection(r) <=> r = "username"
    /\ me = "username" => pc \in {"testSend", "catch", "exit"}
    /\ me \notin {"none", "username"} =>
          /\ pc = "exit"
          /\ exitCode = 1
          /\ notices = 0
          /\ stderr = <<"Failed to connect to Telegram. Check your config.">>

\* C19 witness: the identity call returned a body that is not JSON.
C19_Witness == me = "unparseable" /\ pc = "exit" /\ exitCode = 1

\* The tokens the keyboard offers.
Offered(kb) == {kb[r][c].callback_data : r \in 1..Len(kb), c \in 1..2}

\* C20: the prompt offers four controls in two rows of two with the tokens
\* approve, deny, skip and reply, the dispatch of handleCallbackQuery
\* recognises each of them, and createApprovalKeyboard is that layout.
C20_KeyboardOffersRecognisedTokens ==
    /\ SendNotificationWithButtons(TRUE) = CreateApprovalKeyboard
    /\ sentMessageId # NoMsg =>
          /\ Len(keyboard) = 2
          /\ \A r \in 1..2 : Len(keyboard[r]) = 2
          /\ Offered(keyboard) = {"approve", "deny", "skip", "reply"}
          /\ \A t \in Offered(keyboard) : CallbackResult(t) # "null"
          /\ keyboard = CreateApprovalKeyboard

\* C20 witness: the Reply button of the second row was pressed and the
\* dispatch handled it.
C20_Witness ==
    /\ sentMessageId # NoMsg
    /\ keyboard[2][2].callback_data = "reply"
    /\ replyAt # 0
    /\ IsPress(replyAt, "reply")

\* The text has none of the characters & < >.
IsSafe(text) == \A i \in 1..Len(text) : text[i] \notin {"&", "<", ">"}

\* part is the run of elements of whole that begins at position i.
StartsAt(part, whole, i) ==
    /\ i + Len(part) - 1 <= Len(whole)
    /\ SubSeq(whole, i, i + Len(part) - 1) = part

\* Every & of the text starts one of the entities &amp; &lt; &gt;.
EveryAmpStartsEntity(text) ==
    \A i \in 1..Len(text) :
        text[i] = "&" =>
            \/ StartsAt(<<"&", "a", "m", "p", ";">>, text, i)
            \/ StartsAt(<<"&", "l", "t", ";">>, text, i)
            \/ StartsAt(<<"&", "g", "t", ";">>, text, i)

\* part is a run of consecutive elements of whole.
Embedded(part, whole) == \E i \in 1..(Len(whole) + 1) : StartsAt(part, whole, i)

\* The fields formatNotificationMessage embeds for this context.
Present(c) == {f \in Fields : c[f] # <<>>} \cup {"projectName", "eventType"}

\* C21: the output of escapeHtml has no < and no >, every & in it starts an
\* entity, and text without the three characters is returned as it is; the
\* formatted message embeds every field of the context escaped, so that no
\* character of a field appears in it as a raw < or >.
C21_FieldsAreEscaped ==
    /\ \A f \in Fields :
          /\ \A i \in 1..Len(EscapeHtml(context[f])) :
                EscapeHtml(context[f])[i] \notin {"<", ">"}
          /\ EveryAmpStartsEntity(EscapeHtml(context[f]))
          /\ IsSafe(context[f]) => EscapeHtml(context[f]) = context[f]
    /\ msg # <<>> =>
          /\ \A i \in 1..Len(msg) : msg[i] \notin {"<", ">"}
          /\ EveryAmpStartsEntity(msg)
          /\ LET sent == IF "--event=stop" \in args THEN StopContext(context)
                          ELSE context
             IN \A f \in Present(sent) : Embedded(EscapeHtml(sent[f]), msg)

\* C21 witness: a prompt was sent whose message field held the three
\* characters.
C21_Witness ==
    /\ context.message = <<"<", "&", ">">>
    /\ msg # <<>>
    /\ sentMessageId # NoMsg

\* C22: no step decreases the cursor lastUpdateId, over drains, poll slices,
\* failures and repeated wait cycles on one client, and once an update has
\* been examined the cursor is greater than its id.
C22_CursorNeverDecreases ==
    [][/\ lastUpdateId' >= lastUpdateId
       /\ \A i \in 1..MaxQueue : examined'[i] > 0 => lastUpdateId' > i]_vars

\* C22 witness: in a second wait cycle, after the drain moved the cursor past
\* an update that came after the first cycle, and a poll slice failed.
C22_Witness ==
    /\ pc = "sleep"
    /\ queuedAtBegin > 0
    /\ examined[1] > 0
    /\ examined[queuedAtBegin] = 0
    /\ lastUpdateId = queuedAtBegin + 1
    /\ ~lastPollOk

\* The sub-state of the exchange is awaiting-text: inside processUpdates it is
\* the local currentWaitingForText, outside the local waitingForText of
\* waitForResponse.
AwaitingText ==
    IF pc = "for" \/ InUpdate THEN currentWaitingForText ELSE waitingForText

C24_OutcomeOnlyAfterPress ==
    response \in {"approve", "deny", "skip", "text"} =>
        \/ /\ \E t \in CallbackTokens : IsPress(decidedBy, t)
           /\ calls = <<"answerCallbackQuery", "editMessageReplyMarkup">>
        \/ /\ queue[decidedBy].kind = "message"
           /\ replyAt \in 1..(decidedBy - 1)
           /\ IsPress(replyAt, "reply")
           /\ examined[replyAt] > 0

\* C24 witness: the typed text is the outcome, after the Reply press.
C24_Witness ==
    /\ response = "text"
    /\ IsPress(replyAt, "reply")
    /\ decidedBy > replyAt

\* C25 (stated as claimed): the outcome is the one of the earliest deciding
\* update in the order of delivery: no activation of the waited message with
\* the token approve, deny or skip was delivered before the update that
\* decided.
C25_FirstDecidingUpdateWins ==
    response \in {"approve", "deny", "skip", "text"} =>
        \A i \in delivered :
            i < decidedBy => ~(\E t \in Decisive : IsPress(i, t))

\* Update i is an activation of a button of the prompt whose token is none
\* of approve, deny, skip and reply.
IsUnknownPress(i) ==
    /\ i \in 1..Len(queue)
    /\ queue[i].kind = "callback_query"
    /\ queue[i].mid = OurMsg
    /\ queue[i].data \notin {"approve", "deny", "skip", "reply"}

\* C26 (stated as claimed): no step of the handling of an activation of the
\* waited message with an unknown token produces an outcome, changes the
\* sub-state or leaves the loop.
C26_UnknownTokenIgnored ==
    [][(InUpdate /\ IsUnknownPress(idx)) =>
          /\ response' = "none"
          /\ AwaitingText' = AwaitingText
          /\ InLoop']_vars

\* C27: a text message consumed before any Reply press was handled decides
\* nothing and is not remembered: it is never the deciding update, and a text
\* outcome carries the text of a message consumed after the Reply press.
C27_TextBeforeReplyIgnored ==
    \A i \in 1..Len(queue) :
        (/\ queue[i].kind = "message"
         /\ examined[i] > 0
         /\ (replyAt = 0 \/ i < replyAt))
        => /\ decidedBy # i
           /\ response = "text" =>
                 /\ decidedBy > replyAt
                 /\ content = queue[decidedBy].text
                 /\ replyAt > 0

\* C27 witness: a text was consumed, Reply was pressed after it, and the wait
\* ended with timeout.
C27_Witness ==
    /\ pc = "switch"
    /\ response = "timeout"
    /\ Len(queue) = 2
    /\ queue[1] = TextMessage("hello")
    /\ examined[1] > 0
    /\ replyAt = 2

\* The slice in hand returned at or after the deadline and the update in
\* hand is a decision: an activation of the waited message with the token
\* approve, deny or skip.
LateDecision ==
    /\ InUpdate
    /\ now - startTime >= TimeoutSecs
    /\ \E t \in Decisive : IsPress(idx, t)

\* C28 (stated as claimed): a poll slice is started only while the elapsed
\* time is below the timeout, the outcome timeout is produced only by the test
\* at the top of the loop, and a decision delivered by a slice that returned
\* after the deadline goes through its side calls and is the outcome.
C28_DeadlineOnlyAtLoopTop ==
    [][/\ pc' = "getUpdates" => now' - startTime' < TimeoutSecs
       /\ (response' = "timeout" /\ response # "timeout") => pc = "while"
       /\ LateDecision =>
             \/ pc' = "editMessageReplyMarkup"
             \/ response' = queue[idx].data]_vars

\* C29: a poll slice whose getUpdates call failed changes nothing but the
\* clock: the failure and the backoff after it leave the cursor, the
\* sub-state, the start time, the queue and the response as they are, the
\* backoff takes exactly 1 second and leads back to the top of the loop.
C29_FailedSliceChangesOnlyClock ==
    [][/\ (pc = "getUpdates" /\ pc' = "sleep") =>
             /\ lastUpdateId' = lastUpdateId
             /\ waitingForText' = waitingForText
             /\ startTime' = startTime
             /\ response' = response
             /\ queue' = queue
             /\ now' >= now
       /\ (pc = "sleep" /\ ~lastPollOk) =>
             /\ lastUpdateId' = lastUpdateId
             /\ waitingForText' = waitingForText
             /\ startTime' = startTime
             /\ response' = response
             /\ queue' = queue
             /\ now' = now + 1
             /\ pc' = "while"]_vars

\* C29 witness: back at the top of the loop after a failed slice and its
\* backoff, in the awaiting-text sub-state and with the cursor past the Reply
\* press.
C29_Witness ==
    /\ pc = "while"
    /\ ~lastPollOk
    /\ waitingForText
    /\ lastUpdateId = 2
    /\ now - startTime >= 1

InBatchOfTwo ==
    /\ (pc = "for" \/ InUpdate)
    /\ batchHi = batchLo + 1

\* C31 (stated as claimed): a slice that returned a Reply press of the waited
\* message followed by a text message ends with the outcome of that text
\* (skip for "/cancel", else text); a slice that returned the text first and
\* then the Reply press ends without an outcome and in the awaiting-text
\* sub-state.
C31_SubStateWithinBatch ==
    [][(InBatchOfTwo /\ ~(pc' = "for" \/ InUpdate')) =>
          /\ (IsPress(batchLo, "reply") /\ queue[batchHi].kind = "message") =>
                /\ response' = (IF queue[batchHi].text = "/cancel" THEN "skip" ELSE "text")
                /\ decidedBy' = batchHi
          /\ (queue[batchLo].kind = "message" /\ ~waitingForText
                 /\ IsPress(batchHi, "reply")) =>
                /\ response' = "none"
                /\ AwaitingText']_vars

\* C32: at most one gateway call is in flight at any moment; a poll slice is
\* started with no other call outstanding; and inside the loop time passes
\* only while a gateway call is in flight or in the backoff.
C32_OneCallInFlight ==
    [][/\ Len(inFlight') <= 1
       /\ pc' = "getUpdates" => inFlight' = <<"getUpdates">>
       /\ (InLoop /\ inFlight = <<>> /\ pc # "sleep") => now' = now]_vars

\* C32 witness: the follow-up message is being sent, after the two side
\* calls of the Reply press have returned.
C32_Witness ==
    /\ pc = "sendMessage"
    /\ calls = <<"answerCallbackQuery", "editMessageReplyMarkup">>
    /\ inFlight = <<"sendMessage">>

\* The platform's first answer is a body with ok = true.
FirstReplyOk == Head(api.replies) \in {"username", "no username"}

\* C33: one invocation of a gateway operation issues exactly one HTTP
\* request; when the request fails (network error, unparseable body, ok =
\* false) the invocation fails, raised or false for testConnection, whatever
\* a second request would have been answered; with ok = true it returns.
C33_GatewaySingleShot ==
    api.outcome # "none" =>
        /\ api.requests = 1
        /\ ~FirstReplyOk => api.outcome \in {"raised", "false"}
        /\ (FirstReplyOk /\ api.method # "testConnection") => api.outcome = "returned"
        /\ (api.method = "testConnection") =>
              (api.outcome = "true" <=> Head(api.replies) = "username")

\* C33 witness: getUpdates raised on a network error although a second
\* request would have been answered with ok = true.
C33_Witness ==
    /\ api.method = "getUpdates"
    /\ api.replies = <<"network error", "username">>
    /\ api.outcome = "raised"

\* C34 (stated as claimed): the single-function waitForResponse and the one
\* split into handleCallbackQuery, handleTextMessage and processUpdates are
\* in the same sub-state after every step of the loop, fed the same poll
\* results and failures.
C34_VersionsEquivalent ==
    (InLoop /\ pc # "sendMessage") => legacyWaitingForText = AwaitingText

\* The update in hand is no button activation of the waited message: a text
\* message or an activation of a button of another message.
ForeignInHand ==
    /\ idx \in batchLo..batchHi
    /\ ~(queue[idx].kind = "callback_query" /\ queue[idx].mid = sentMessageId)

\* C35: an update that is no button activation of the waited message causes
\* no gateway side call: taking it up moves the cursor past it and goes
\* straight to the text test, which issues no call and leaves the cursor and
\* the sub-state as they are.
C35_ForeignUpdateNoSideCall ==
    [][/\ (pc = "for" /\ ForeignInHand) =>
             /\ pc' = "handleTextMessage"
             /\ lastUpdateId' = idx + 1
             /\ calls' = <<>> /\ inFlight' = <<>>
             /\ currentWaitingForText' = currentWaitingForText
             /\ waitingForText' = waitingForText
             /\ response' = response
       /\ (pc = "handleTextMessage" /\ ForeignInHand) =>
             /\ pc' \in {"for", "switch"}
             /\ lastUpdateId' = lastUpdateId
             /\ calls' = <<>> /\ inFlight' = <<>>
             /\ currentWaitingForText' = currentWaitingForText
             /\ waitingForText' = waitingForText]_vars

\* C35 witness: a text message and an activation of a button of another
\* message were handled without any call and the next poll is on its way.
C35_Witness ==
    /\ pc = "getUpdates"
    /\ Len(queue) = 2
    /\ queue[1] = TextMessage("hello")
    /\ queue[2] = Callback(OtherMsg, "approve")
    /\ examined[1] > 0 /\ examined[2] > 0
    /\ lastUpdateId = 3
    /\ queuedAtBegin = 0

\* C36: the handling of an update does not depend on its chat or its
\* sender: for every update of the run, the tests of handleCallbackQuery and
\* handleTextMessage give the same result for the update coming from any
\* other origin, and the text of the outcome is the text of the deciding
\* update whatever its origin.
C36_OriginIgnored ==
    /\ \A i \in 1..Len(queue) : \A o \in Origins :
          /\ MatchesSentMessage(From(queue[i], o), sentMessageId)
               = MatchesSentMessage(queue[i], sentMessageId)
          /\ \A w \in BOOLEAN :
                TextResult(From(queue[i], o), w) = TextResult(queue[i], w)
    /\ response = "text" => content = queue[decidedBy].text
    /\ \A i \in 1..Len(queue) :
          (/\ pc = "handleTextMessage" /\ idx = i /\ currentWaitingForText
           /\ queue[i].kind = "message")
          => TextResult(queue[i], currentWaitingForText) = "text"

\* C36 witness: Reply was pressed in the configured chat and the text of a
\* stranger in another chat is the outcome.
C36_Witness ==
    /\ response = "text"
    /\ replyAt = 1
    /\ queue[1].chat = "chatId"
    /\ decidedBy = 2
    /\ queue[2].chat = "other chat"
    /\ queue[2].from = "stranger"

\* What the wizard was given.
KeptOldConfig ==
    /\ "reconfigure" \in wizard.prompted
    /\ wizard.reconfigure \notin {<<"y">>, <<"Y">>}

TokenWithoutColon ==
    /\ "token" \in wizard.prompted
    /\ \A i \in DOMAIN wizard.token : wizard.token[i] # ":"

TestFailed == wizard.connected = "failed"

FilesUntouched ==
    /\ wizard.saveConfigCalls = <<>>
    /\ wizard.configFile = wizard.configFile0
    /\ wizard.settings = wizard.settings0
    /\ ~wizard.installHooksCalled

\* C37: saveConfig is called only after the test message was sent with the
\* token and the chat id entered, and with them; when the user keeps an
\* existing configuration, or the token has no ':', or the test message
\* fails, saveConfig is not called and neither file changes; installHooks
\* is called, and the settings change, only once the configuration is saved.
C37_ConfigOnlyAfterTest ==
    /\ wizard.saveConfigCalls # <<>> =>
          /\ wizard.connected = "sent"
          /\ wizard.botToken = RealToken /\ wizard.chatId = RealChat
          /\ wizard.saveConfigCalls
               = <<[exists |-> TRUE, botToken |-> wizard.botToken,
                    chatId |-> wizard.chatId]>>
    /\ wizard.configFile # wizard.configFile0 => wizard.saveConfigCalls # <<>>
    /\ (KeptOldConfig \/ TokenWithoutColon \/ TestFailed) => FilesUntouched
    /\ (wizard.installHooksCalled \/ wizard.settings # wizard.settings0) =>
          /\ wizard.saveConfigCalls # <<>>
          /\ wizard.configFile = wizard.saveConfigCalls[1]

\* C37 witness: an existing configuration is replaced after the test message
\* went out, and the hooks are merged into the settings after that.
C37_Witness ==
    /\ wizard.pc = "returned"
    /\ wizard.configFile0 = OldConfigFile
    /\ wizard.reconfigure = <<"Y">>
    /\ wizard.connected = "sent"
    /\ wizard.configFile = [exists |-> TRUE, botToken |-> RealToken, chatId |-> RealChat]
    /\ wizard.settings.hooks = {"PreToolUse", "Notification", "Stop"}

====
